---- MODULE Spec2Model ----
(***************************************************************************)
(* Model of rest_api_helper.py: the in-memory record store of LazyManager  *)
(* (one dict per collection, keyed by the value of the collection's        *)
(* id_field) and the request handlers that read and change it.             *)
(*                                                                         *)
(* A JSON object is a function from Fields to a value, Absent standing for *)
(* "the dict has no such key".  A collection (a Python dict) is a function *)
(* from the set of its keys to the entries stored under them.              *)
(***************************************************************************)
EXTENDS Naturals, Sequences, FiniteSets, TLC

(***************************************************************************)
(* Bounds of the model.                                                    *)
(***************************************************************************)
MaxUuid == 2        \* uuid.uuid4() is called at most this many times
MaxBatch == 2       \* longest list body of a POST/PUT request

(***************************************************************************)
(* Values.                                                                 *)
(***************************************************************************)
Absent == "-"                       \* the dict has no such key
None == "None"                      \* Python's None
EmptyId == ""                       \* an entry_id of length 0
InternalId == "__id__"              \* the key add_entry attaches
Fields == {"email", "name", InternalId}
Emails == {"a", "b"}
Names == {"n"}
UnknownIds == {"x"}                 \* an internal id the service never generated
\* A JSON number n is held as the string "#n", which keeps it apart from the
\* JSON string "n".
Numbers == {"#1"}
UuidTokens == <<"u1", "u2", "u3", "u4", "u5", "u6", "u7", "u8">>

\* str(uuid.uuid4()): the n-th token generated by the process; every call
\* yields a token no earlier call yielded.
uuid4(n) == UuidTokens[n]

GeneratedIds(n) == {uuid4(i) : i \in 1..n}

\* CollectionConfig(name, id_field, data_file)
CollectionConfig(name, id_field, data_file) ==
    [name |-> name, id_field |-> id_field, data_file |-> data_file]

\* The config list of the sample usage.
UsersConfig == CollectionConfig("users", "email", "data_users.json")

\* A second collection, keyed by another field.
PetsConfig == CollectionConfig("pets", "name", "data_pets.json")

\* The collection names a request may carry.
CollectionNames == {"users", "pets"}
Methods == {"GET", "POST", "PUT", "DELETE"}

has_key(d, k) == d[k] # Absent

NoEntry == [f \in Fields |-> Absent]
EmptyCollection == [k \in {} |-> NoEntry]

\* The JSON objects a caller may send when n uuids have been generated: an
\* object may carry any internal id the service has handed out, or none.
Entries(n) ==
    { e \in [Fields -> Emails \cup Names \cup GeneratedIds(n) \cup {Absent}] :
        /\ e["email"] \in Emails \cup {Absent}
        /\ e["name"] \in Names \cup {Absent}
        /\ e[InternalId] \in GeneratedIds(n) \cup {Absent} }

\* request.get_json(force=True, silent=True): None for a missing or malformed
\* body, a dict for a JSON object, a list for a JSON array.
NoBody == [kind |-> "none", items |-> <<>>]
DictBody(e) == [kind |-> "dict", items |-> <<e>>]
ListBody(es) == [kind |-> "list", items |-> es]

SeqsUpTo(S, n) == UNION { [1..k -> S] : k \in 0..n }

Bodies(n) == {NoBody} \cup { DictBody(e) : e \in Entries(n) }

\* The elements of a list body: objects without the "name" field.
BatchEntries(n) == { e \in Entries(n) : e["name"] = Absent }

ListBodies(n) == { ListBody(es) : es \in SeqsUpTo(BatchEntries(n), MaxBatch) }

\* List bodies of no or one element, and of up to two elements.
UnitListBodies(n) == {ListBody(<<>>)} \cup { ListBody(<<e>>) : e \in BatchEntries(n) }
PairListBodies(n) ==
    UnitListBodies(n) \cup { ListBody(<<e1, e2>>) : e1, e2 \in BatchEntries(n) }

EntryIds(n) == {None, EmptyId} \cup UnknownIds \cup GeneratedIds(n)

(***************************************************************************)
(* Response bodies.  json.dumps is kept as a tagged value so that the text *)
(* of an entry, the empty string and the error text stay distinguishable.  *)
(***************************************************************************)
EmptyText == [kind |-> "empty", entry |-> NoEntry]          \* str('')
NonMatchingText == [kind |-> "error", entry |-> NoEntry]    \* '{"error": "non matching IDs"}'
dumps(e) == [kind |-> "json", entry |-> e]                  \* json.dumps(entry)

NoContent == [form |-> "none", texts |-> <<>>, coll |-> EmptyCollection]
TextContent(t) == [form |-> "text", texts |-> <<t>>, coll |-> EmptyCollection]
ArrayContent(ts) == [form |-> "array", texts |-> ts, coll |-> EmptyCollection]
CollectionContent(c) == [form |-> "collection", texts |-> <<>>, coll |-> c]

\* The kinds of the texts a response body is made of.
Kinds(content) == [i \in DOMAIN content.texts |-> content.texts[i].kind]

\* entries[key] = value on a dict
Put(d, k, v) == [x \in (DOMAIN d) \cup {k} |-> IF x = k THEN v ELSE d[x]]
\* del d[key]
Del(d, k) == [x \in (DOMAIN d) \ {k} |-> d[x]]


(***************************************************************************)
(* State.                                                                  *)
(***************************************************************************)
VARIABLES
    collection_configs,  \* LazyManager.collection_configs: name -> CollectionConfig
    records,    \* LazyManager.records: collection name -> dict of entries
    locks,      \* LazyManager.locks: collection name -> thread holding the RLock, or None
    uuids,      \* how many times uuid.uuid4() has been called
    resp,       \* the Response last returned: the handler that built it, its
                \* status, what kind of text each part of its body is, and how
                \* many uuids the request generated
    threads,    \* the request threads: where each is in its handler, and its locals
    start,      \* the store as LazyManager.init loaded it
    files,      \* the data files: path -> content
    running     \* the process is serving requests (it has not exited)

vars == <<collection_configs, records, locks, uuids, resp, threads, start, files, running>>

\* add_entry looking for the identity field only in an entry that brings no
\* internal id.
add_entry_unchecked(recs, n, collection, entry) ==
    LET logical_id_field == collection_configs[collection].id_field IN
    IF ~has_key(entry, logical_id_field) /\ ~has_key(entry, InternalId)
    THEN [status |-> 400, text |-> EmptyText, records |-> recs, uuids |-> n]
    ELSE LET id_value == entry[logical_id_field]
             entries == recs[collection]
             n2 == IF has_key(entry, InternalId) THEN n ELSE n + 1
             entry2 == IF has_key(entry, InternalId) THEN entry
                       ELSE [entry EXCEPT ![InternalId] = uuid4(n + 1)]
         IN IF /\ id_value \in DOMAIN entries
               /\ ~(entries[id_value][InternalId] = entry2[InternalId])
            THEN [status |-> 400, text |-> NonMatchingText, records |-> recs, uuids |-> n2]
            ELSE [status |-> 200, text |-> dumps(entry2),
                  records |-> [recs EXCEPT ![collection] = Put(entries, id_value, entry2)],
                  uuids |-> n2]

\* add_entry storing the entry under its internal id.
add_entry_by_internal_id(recs, n, collection, entry) ==
    LET logical_id_field == collection_configs[collection].id_field IN
    IF ~has_key(entry, logical_id_field)
    THEN [status |-> 400, text |-> EmptyText, records |-> recs, uuids |-> n]
    ELSE LET id_value == entry[logical_id_field]
             entries == recs[collection]
             n2 == IF has_key(entry, InternalId) THEN n ELSE n + 1
             entry2 == IF has_key(entry, InternalId) THEN entry
                       ELSE [entry EXCEPT ![InternalId] = uuid4(n + 1)]
         IN IF /\ id_value \in DOMAIN entries
               /\ ~(entries[id_value][InternalId] = entry2[InternalId])
            THEN [status |-> 400, text |-> NonMatchingText, records |-> recs, uuids |-> n2]
            ELSE [status |-> 200, text |-> dumps(entry2),
                  records |-> [recs EXCEPT ![collection] =
                                  Put(entries, entry2[InternalId], entry2)],
                  uuids |-> n2]

(***************************************************************************)
(* DataHelper.add_entry(records, collection, entry), n uuids having been   *)
(* generated so far.  Returns the status and text, and the store and the   *)
(* uuid count it leaves behind.                                            *)
(***************************************************************************)
\* add_entry without the comparison of lines 137-140: it always stores.
add_entry_overwrite(recs, n, collection, entry) ==
    LET logical_id_field == collection_configs[collection].id_field IN
    IF ~has_key(entry, logical_id_field)
    THEN [status |-> 400, text |-> EmptyText, records |-> recs, uuids |-> n]
    ELSE
      LET id_value == entry[logical_id_field]
          n2 == IF has_key(entry, InternalId) THEN n ELSE n + 1
          entry2 == IF has_key(entry, InternalId)
                    THEN entry
                    ELSE [entry EXCEPT ![InternalId] = uuid4(n + 1)]
      IN [status |-> 200, text |-> dumps(entry2),
          records |-> [recs EXCEPT ![collection] = Put(recs[collection], id_value, entry2)],
          uuids |-> n2]

\* add_entry without the test of line 126: it attaches a new uuid to every entry.
add_entry_regenerate(recs, n, collection, entry) ==
    LET logical_id_field == collection_configs[collection].id_field IN
    IF ~has_key(entry, logical_id_field)
    THEN [status |-> 400, text |-> EmptyText, records |-> recs, uuids |-> n]
    ELSE
      LET id_value == entry[logical_id_field]
          entry2 == [entry EXCEPT ![InternalId] = uuid4(n + 1)]
          entries == recs[collection]
      IN IF /\ id_value \in DOMAIN entries
            /\ ~(entries[id_value][InternalId] = entry2[InternalId])
         THEN [status |-> 400, text |-> NonMatchingText, records |-> recs, uuids |-> n + 1]
         ELSE [status |-> 200, text |-> dumps(entry2),
               records |-> [recs EXCEPT ![collection] = Put(entries, id_value, entry2)],
               uuids |-> n + 1]

\* add_entry taking over the stored internal id when the entry carries none.
add_entry_adopt(recs, n, collection, entry) ==
    LET logical_id_field == collection_configs[collection].id_field IN
    IF ~has_key(entry, logical_id_field)
    THEN [status |-> 400, text |-> EmptyText, records |-> recs, uuids |-> n]
    ELSE
      LET id_value == entry[logical_id_field]
          entries == recs[collection]
          adopt == ~has_key(entry, InternalId) /\ id_value \in DOMAIN entries
          n2 == IF has_key(entry, InternalId) \/ adopt THEN n ELSE n + 1
          entry2 == IF has_key(entry, InternalId)
                    THEN entry
                    ELSE IF adopt
                         THEN [entry EXCEPT ![InternalId] = entries[id_value][InternalId]]
                         ELSE [entry EXCEPT ![InternalId] = uuid4(n + 1)]
      IN IF /\ id_value \in DOMAIN entries
            /\ ~(entries[id_value][InternalId] = entry2[InternalId])
         THEN [status |-> 400, text |-> NonMatchingText, records |-> recs, uuids |-> n2]
         ELSE [status |-> 200, text |-> dumps(entry2),
               records |-> [recs EXCEPT ![collection] = Put(entries, id_value, entry2)],
               uuids |-> n2]

add_entry(recs, n, collection, entry) ==
    LET logical_id_field == collection_configs[collection].id_field IN
    IF ~has_key(entry, logical_id_field)
    THEN [status |-> 400, text |-> EmptyText, records |-> recs, uuids |-> n]
    ELSE
      LET id_value == entry[logical_id_field]
          n2 == IF has_key(entry, InternalId) THEN n ELSE n + 1
          entry2 == IF has_key(entry, InternalId)
                    THEN entry
                    ELSE [entry EXCEPT ![InternalId] = uuid4(n + 1)]
          entries == recs[collection]
      IN IF /\ id_value \in DOMAIN entries
            /\ ~(entries[id_value][InternalId] = entry2[InternalId])
         THEN [status |-> 400, text |-> NonMatchingText, records |-> recs, uuids |-> n2]
         ELSE [status |-> 200, text |-> dumps(entry2),
               records |-> [recs EXCEPT ![collection] = Put(entries, id_value, entry2)],
               uuids |-> n2]

(***************************************************************************)
(* next((k for k,i in collection.iteritems() if i['__id__'] == entry_id),  *)
(* None): the first matching key in the dict's iteration order, which the  *)
(* language leaves unspecified; every matching key is a possible result.   *)
(***************************************************************************)
MatchingKeys(coll, entry_id) == { k \in DOMAIN coll : coll[k][InternalId] = entry_id }

next_key(coll, entry_id) ==
    IF MatchingKeys(coll, entry_id) = {} THEN {None} ELSE MatchingKeys(coll, entry_id)

\* LazyManager.get_data_entries, the scan having stopped at key (or None)
get_data_entries(recs, collection, entry_id, key) ==
    LET coll == recs[collection] IN
    IF entry_id = None \/ entry_id = EmptyId
    THEN [status |-> 200, content |-> CollectionContent(coll), records |-> recs]
    ELSE IF key = None
         THEN [status |-> 404, content |-> NoContent, records |-> recs]
         ELSE [status |-> 200, content |-> TextContent(dumps(coll[key])), records |-> recs]

\* delete_data_entry answering a missing or empty entry_id with 400.
delete_data_entry_validate(recs, collection, entry_id, key) ==
    LET coll == recs[collection] IN
    IF entry_id = None \/ entry_id = EmptyId
    THEN [status |-> 400, content |-> NoContent, records |-> recs]
    ELSE IF key = None
         THEN [status |-> 404, content |-> NoContent, records |-> recs]
         ELSE [status |-> 200, content |-> NoContent,
               records |-> [recs EXCEPT ![collection] = Del(coll, key)]]

\* delete_data_entry removing the records with that internal id from every
\* collection.
delete_data_entry_everywhere(recs, collection, entry_id, key) ==
    LET coll == recs[collection] IN
    IF entry_id = None \/ entry_id = EmptyId
    THEN [status |-> 404, content |-> NoContent, records |-> recs]
    ELSE IF key = None
         THEN [status |-> 404, content |-> NoContent, records |-> recs]
         ELSE [status |-> 200, content |-> NoContent,
               records |-> [c \in DOMAIN recs |->
                   IF c = collection THEN Del(coll, key)
                   ELSE [k \in { x \in DOMAIN recs[c] : recs[c][x][InternalId] # entry_id }
                           |-> recs[c][k]]]]

\* LazyManager.delete_data_entry, the scan having stopped at key (or None)
delete_data_entry(recs, collection, entry_id, key) ==
    LET coll == recs[collection] IN
    IF entry_id = None \/ entry_id = EmptyId
    THEN [status |-> 404, content |-> NoContent, records |-> recs]
    ELSE IF key = None
         THEN [status |-> 404, content |-> NoContent, records |-> recs]
         ELSE [status |-> 200, content |-> NoContent,
               records |-> [recs EXCEPT ![collection] = Del(coll, key)]]

\* update_data_entry storing the entry under the key its own id_field gives.
update_data_entry_rekey(recs, collection, entry_id, body, key) ==
    IF body.kind = "none"
    THEN [status |-> 400, content |-> NoContent, records |-> recs]
    ELSE
      LET entry == body.items[1]
          coll == recs[collection]
          id_field == collection_configs[collection].id_field
          new_key == IF has_key(entry, id_field) THEN entry[id_field] ELSE key
      IN IF entry_id = None \/ entry_id = EmptyId
         THEN [status |-> 404, content |-> NoContent, records |-> recs]
         ELSE IF key = None
              THEN [status |-> 404, content |-> NoContent, records |-> recs]
              ELSE [status |-> 200, content |-> NoContent,
                    records |-> [recs EXCEPT ![collection] =
                        Put(Del(coll, key), new_key,
                            [entry EXCEPT ![InternalId] = coll[key][InternalId]])]]

\* update_data_entry keeping the stored value of a field the payload lacks.
update_data_entry_merge(recs, collection, entry_id, body, key) ==
    IF body.kind = "none"
    THEN [status |-> 400, content |-> NoContent, records |-> recs]
    ELSE
      LET entry == body.items[1]
          coll == recs[collection]
      IN IF entry_id = None \/ entry_id = EmptyId
         THEN [status |-> 404, content |-> NoContent, records |-> recs]
         ELSE IF key = None
              THEN [status |-> 404, content |-> NoContent, records |-> recs]
              ELSE [status |-> 200, content |-> NoContent,
                    records |-> [recs EXCEPT ![collection] =
                        Put(coll, key,
                            [f \in Fields |->
                                IF f = InternalId \/ ~has_key(entry, f)
                                THEN coll[key][f] ELSE entry[f]])]]

\* update_data_entry storing the internal id the payload carries, if any.
update_data_entry_trust(recs, collection, entry_id, body, key) ==
    IF body.kind = "none"
    THEN [status |-> 400, content |-> NoContent, records |-> recs]
    ELSE
      LET entry == body.items[1]
          coll == recs[collection]
      IN IF entry_id = None \/ entry_id = EmptyId
         THEN [status |-> 404, content |-> NoContent, records |-> recs]
         ELSE IF key = None
              THEN [status |-> 404, content |-> NoContent, records |-> recs]
              ELSE [status |-> 200, content |-> NoContent,
                    records |-> [recs EXCEPT ![collection] =
                        Put(coll, key,
                            IF has_key(entry, InternalId) THEN entry
                            ELSE [entry EXCEPT ![InternalId] = coll[key][InternalId]])]]

\* LazyManager.update_data_entry, the scan having stopped at key (or None)
update_data_entry(recs, collection, entry_id, body, key) ==
    IF body.kind = "none"
    THEN [status |-> 400, content |-> NoContent, records |-> recs]
    ELSE
      LET entry == body.items[1]
          coll == recs[collection]
      IN IF entry_id = None \/ entry_id = EmptyId
         THEN [status |-> 404, content |-> NoContent, records |-> recs]
         ELSE IF key = None
              THEN [status |-> 404, content |-> NoContent, records |-> recs]
              ELSE [status |-> 200, content |-> NoContent,
                    records |-> [recs EXCEPT ![collection] =
                        Put(coll, key, [entry EXCEPT ![InternalId] = coll[key][InternalId]])]]


(***************************************************************************)
(* The loop of add_update_data_entries over a list body: add_entry on each *)
(* element in turn, against the store the previous elements left, the      *)
(* status of each call being dropped and its text appended to contents.    *)
(***************************************************************************)
RECURSIVE add_entries_stop(_, _, _, _, _)
\* The loop leaving at the first element add_entry refuses.
add_entries_stop(recs, n, collection, entries, contents) ==
    IF entries = <<>>
    THEN [texts |-> contents, records |-> recs, uuids |-> n]
    ELSE LET r == add_entry(recs, n, collection, Head(entries))
         IN IF r.status # 200
            THEN [texts |-> Append(contents, r.text), records |-> r.records, uuids |-> r.uuids]
            ELSE add_entries_stop(r.records, r.uuids, collection, Tail(entries),
                                  Append(contents, r.text))

RECURSIVE add_entries(_, _, _, _, _)
add_entries(recs, n, collection, entries, contents) ==
    IF entries = <<>>
    THEN [texts |-> contents, records |-> recs, uuids |-> n]
    ELSE LET r == add_entry(recs, n, collection, Head(entries))
         IN add_entries(r.records, r.uuids, collection, Tail(entries),
                        Append(contents, r.text))

\* LazyManager.add_update_data_entries
add_update_data_entries(recs, n, collection, body) ==
    IF body.kind = "none"
    THEN [status |-> 400, content |-> NoContent, records |-> recs, uuids |-> n]
    ELSE IF body.kind # "list"
         THEN LET r == add_entry(recs, n, collection, body.items[1])
              IN [status |-> r.status, content |-> TextContent(r.text),
                  records |-> r.records, uuids |-> r.uuids]
         ELSE LET r == add_entries(recs, n, collection, body.items, <<>>)
              IN [status |-> 200, content |-> ArrayContent(r.texts),
                  records |-> r.records, uuids |-> r.uuids]

(***************************************************************************)
(* LazyManager.handle_url_single_filter(collection, req, resp, [filter_key]) *)
(* on the Response of get_data_entries for the whole collection, value     *)
(* being req.args.get(filter_key): the Responses it may return.  The one   *)
(* text of resp is the JSON of the dict, whose entries are visited one by  *)
(* one; entry[filter_key] and entry[config.id_field] raise KeyError on an  *)
(* entry without that key, which ends the request with status 500.  Of two *)
(* matching entries with one identity value the one visited later is kept. *)
(***************************************************************************)
handle_url_single_filter(recs, collection, filter_key, value) ==
    LET listing == get_data_entries(recs, collection, None, None)
        dictionary == listing.content.coll
        id_field == collection_configs[collection].id_field
        matching == { k \in DOMAIN dictionary : dictionary[k][filter_key] = value }
        ids == { dictionary[k][id_field] : k \in matching }
    IN IF value = None \/ value = EmptyId
       THEN { [status |-> listing.status, content |-> listing.content] }
       ELSE IF \E k \in DOMAIN dictionary : ~has_key(dictionary[k], filter_key)
       THEN { [status |-> 500, content |-> NoContent] }
       ELSE IF \E k \in matching : ~has_key(dictionary[k], id_field)
       THEN { [status |-> 500, content |-> NoContent] }
       ELSE { [status |-> 200, content |-> CollectionContent(new_entries)] :
                new_entries \in
                  { d \in [ids -> { dictionary[k] : k \in matching }] :
                      \A i \in ids : d[i][id_field] = i } }

\* What process_request hands back: the Response of the handler it called, with
\* the store and the uuid count the handler left.
Handled(handler, r, n) ==
    [handler |-> handler, status |-> r.status, content |-> r.content,
     records |-> r.records, uuids |-> n]

\* process_request answering a DELETE on an unknown collection like a delete
\* that found nothing to validate: 400 instead of 404.
process_request_unknown_delete(recs, n, method, collection, entry_id, body, key) ==
    IF collection \notin DOMAIN collection_configs
    THEN [handler |-> "process_request",
          status |-> IF method = "DELETE" THEN 400 ELSE 404,
          content |-> NoContent, records |-> recs, uuids |-> n]
    ELSE IF method = "GET" \/ method = "OPTIONS"
    THEN Handled("get_data_entries",
                 get_data_entries(recs, collection, entry_id, key), n)
    ELSE IF method = "DELETE"
    THEN Handled("delete_data_entry",
                 delete_data_entry(recs, collection, entry_id, key), n)
    ELSE IF method = "PUT" /\ ~(entry_id = None)
    THEN Handled("update_data_entry",
                 update_data_entry(recs, collection, entry_id, body, key), n)
    ELSE LET r == add_update_data_entries(recs, n, collection, body)
         IN Handled("add_update_data_entries", r, r.uuids)

\* LazyManager.process_request, the scan of the handler (if it makes one)
\* having stopped at key
process_request(recs, n, method, collection, entry_id, body, key) ==
    IF collection \notin DOMAIN collection_configs
    THEN [handler |-> "process_request", status |-> 404, content |-> NoContent,
          records |-> recs, uuids |-> n]
    ELSE IF method = "GET" \/ method = "OPTIONS"
    THEN Handled("get_data_entries",
                 get_data_entries(recs, collection, entry_id, key), n)
    ELSE IF method = "DELETE"
    THEN Handled("delete_data_entry",
                 delete_data_entry(recs, collection, entry_id, key), n)
    ELSE IF method = "PUT" /\ ~(entry_id = None)
    THEN Handled("update_data_entry",
                 update_data_entry(recs, collection, entry_id, body, key), n)
    ELSE LET r == add_update_data_entries(recs, n, collection, body)
         IN Handled("add_update_data_entries", r, r.uuids)

\* What the scan of a handler may return for this request.
ScanResults(recs, collection, entry_id) ==
    IF collection \in DOMAIN collection_configs
    THEN next_key(recs[collection], entry_id)
    ELSE {None}

(***************************************************************************)
(* A data file: missing, empty, not JSON, or the text of a JSON object.    *)
(* The text of a JSON object is the set of its members <<name, value>>;    *)
(* a name is a string, and two members may have the same name.             *)
(***************************************************************************)
MissingFile == [state |-> "missing", data |-> {}]
EmptyFile == [state |-> "empty", data |-> {}]
MalformedFile == [state |-> "malformed", data |-> {}]
JsonFile(text) == [state |-> "json", data |-> text]

\* The name json.dump writes for a dict key: a string as it is, a number as
\* its decimal text.
key_text(k) == IF k = "#1" THEN "1" ELSE k

\* json.dump(data, data_file) of a dict of entries: one member per key, its
\* name the text of the key.
json_dump(data) == { <<key_text(k), data[k]>> : k \in DOMAIN data }

\* json.load(data_file) of the text of an object: a dict with one key per
\* member name, every key a string; of two members with one name the later
\* in the text is kept, and which one json.dump wrote later follows the
\* dict's iteration order, so either may be kept.
json_load(text) ==
    LET names == { m[1] : m \in text }
        values == { m[2] : m \in text }
    IN { d \in [names -> values] : \A t \in names : <<t, d[t]>> \in text }

\* DataHelper.load_data, the dicts it may return: json.load raises ValueError
\* on an empty or malformed file (a missing file has been created empty),
\* which gives {}.
load_data(file) ==
    IF file.state = "json" THEN json_load(file.data) ELSE {EmptyCollection}

\* The file load_data leaves: a missing file has been created, empty.
load_data_file(file) ==
    IF file.state = "missing" THEN EmptyFile ELSE file

\* DataHelper.save_data(path, data): the file is created if missing and
\* rewritten with the JSON text of data; True is returned.
save_data(data) == [ok |-> TRUE, file |-> JsonFile(json_dump(data))]

Threads == {"t1", "t2"}

IdleThread ==
    [pc |-> "idle", method |-> None, collection |-> None, entry_id |-> None,
     body |-> NoEntry, entry |-> NoEntry, key |-> None, old_id |-> None,
     token |-> 0, status |-> 0]

(***************************************************************************)
(* LazyManager.init(collection_config_list), fs giving the content of each *)
(* data file and n the number of uuids generated before this run.  The     *)
(* RLock of each collection is created; nothing holds it.                  *)
(***************************************************************************)
\* The stores init may load for the configs (name -> CollectionConfig) from fs.
Loaded(configs, fs) ==
    { r \in [DOMAIN configs -> UNION { load_data(fs[f]) : f \in DOMAIN fs }] :
        \A c \in DOMAIN configs : r[c] \in load_data(fs[configs[c].data_file]) }

\* The files init leaves: the data file of every config exists.
Opened(configs, fs) ==
    [f \in DOMAIN fs |->
        IF \E c \in DOMAIN configs : configs[c].data_file = f
        THEN load_data_file(fs[f]) ELSE fs[f]]

InitResponse == [handler |-> "init", status |-> 0, kinds |-> <<>>, generated |-> 0]

init(collection_config_list, fs, n) ==
    LET configs == { collection_config_list[i] : i \in DOMAIN collection_config_list }
        names == { cfg.name : cfg \in configs }
        config(c) == CHOOSE cfg \in configs : cfg.name = c
    IN /\ collection_configs = [c \in names |-> config(c)]
       /\ locks = [c \in names |-> None]
       /\ records \in Loaded([c \in names |-> config(c)], fs)
       /\ start = records
       /\ files = Opened([c \in names |-> config(c)], fs)
       /\ running = TRUE
       /\ uuids = n
       /\ resp = InitResponse
       /\ threads = [t \in Threads |-> IdleThread]

DataFiles == {UsersConfig.data_file}

\* The service starts with no data file on disk.
Init == init(<<UsersConfig>>, [f \in DataFiles |-> MissingFile], 0)

(***************************************************************************)
(* One request, served from start to end with no other request running.    *)
(***************************************************************************)
Request(method, collection, entry_id, body) ==
    \E key \in ScanResults(records, collection, entry_id) :
        LET r == process_request(records, uuids, method, collection, entry_id, body, key)
        IN /\ running
           /\ r.uuids <= MaxUuid
           /\ records' = r.records
           /\ uuids' = r.uuids
           /\ resp' = [handler |-> r.handler, status |-> r.status,
                       kinds |-> Kinds(r.content), generated |-> r.uuids - uuids]
           /\ UNCHANGED <<collection_configs, locks, threads, start, files, running>>

Get(collection, entry_id) == Request("GET", collection, entry_id, NoBody)

Delete(collection, entry_id) == Request("DELETE", collection, entry_id, NoBody)

Update(collection, entry_id, body) ==
    /\ entry_id # None
    /\ body.kind # "list"
    /\ Request("PUT", collection, entry_id, body)

Post(collection, body) == Request("POST", collection, None, body)

PutAll(collection, body) == Request("PUT", collection, None, body)

Unknown(method, collection, entry_id, body) ==
    /\ collection \notin DOMAIN collection_configs
    /\ Request(method, collection, entry_id, body)

\* A GET of the whole collection whose Response the application narrows with
\* handle_url_single_filter before returning it.
Filter(collection, filter_key, value) ==
    /\ running
    /\ \E r \in handle_url_single_filter(records, collection, filter_key, value) :
          resp' = [handler |-> "handle_url_single_filter", status |-> r.status,
                   kinds |-> IF r.content.form = "collection" THEN <<"json">> ELSE <<>>,
                   generated |-> 0]
    /\ UNCHANGED <<collection_configs, records, locks, uuids, threads, start, files, running>>

Registered == DOMAIN collection_configs

\* The fields a request filters on, and the values of its query argument
\* (None when the argument is missing).
FilterKeys == {"email", "name"}
FilterValues == Emails \cup Names

Next ==
    \/ \E c \in Registered, id \in EntryIds(uuids) : Get(c, id)
    \/ \E c \in Registered, id \in EntryIds(uuids) : Delete(c, id)
    \/ \E c \in Registered, id \in EntryIds(uuids), b \in Bodies(uuids) : Update(c, id, b)
    \/ \E c \in Registered, b \in Bodies(uuids) : Post(c, b)
    \/ \E c \in Registered, b \in Bodies(uuids) : PutAll(c, b)
    \/ \E m \in Methods, c \in CollectionNames, id \in {None} \cup UnknownIds,
          b \in {NoBody, DictBody(NoEntry)} :
          Unknown(m, c, id, b)
    \/ \E c \in Registered, f \in FilterKeys, v \in FilterValues \cup {None} :
          Filter(c, f, v)

Spec == Init /\ [][Next]_vars

\* A POST whose body is a JSON array.
PostList(collection, body) ==
    /\ body.kind = "list"
    /\ Request("POST", collection, None, body)

NextBatch ==
    \/ Next
    \/ \E c \in Registered, b \in ListBodies(uuids) : PostList(c, b)

\* The service with list bodies among its requests.
SpecBatch == Init /\ [][NextBatch]_vars

(***************************************************************************)
(* The end of the process and the next run of the service.                 *)
(***************************************************************************)
\* LazyManager.handle_shutdown: the files after save_data of every
\* collection on its config's data file.
handle_shutdown(configs, recs, fs) ==
    [f \in DOMAIN fs |->
        IF \E c \in DOMAIN configs : configs[c].data_file = f
        THEN save_data(recs[CHOOSE c \in DOMAIN configs : configs[c].data_file = f]).file
        ELSE fs[f]]

\* The interpreter exits: the atexit hook that init registered runs, and no
\* request is served any more.
Shutdown ==
    /\ running
    /\ files' = handle_shutdown(collection_configs, records, files)
    /\ running' = FALSE
    /\ resp' = [handler |-> "handle_shutdown", status |-> 0, kinds |-> <<>>, generated |-> 0]
    /\ UNCHANGED <<collection_configs, records, locks, uuids, threads, start>>

\* The service is started again with the same configs: init loads what the
\* previous run saved.
Restart ==
    /\ ~running
    /\ records' \in Loaded(collection_configs, files)
    /\ start' = records'
    /\ files' = Opened(collection_configs, files)
    /\ running' = TRUE
    /\ resp' = InitResponse
    /\ threads' = [t \in Threads |-> IdleThread]
    /\ UNCHANGED <<collection_configs, locks, uuids>>

\* The objects posted in the runs below: an identity value that is a string
\* or a number, no other field.
PersistEmails == {"a"} \cup Numbers
PersistEntries == { [NoEntry EXCEPT !["email"] = v] : v \in PersistEmails }

NextPersist ==
    \/ \E c \in Registered, e \in PersistEntries : Post(c, DictBody(e))
    \/ \E c \in Registered, id \in GeneratedIds(uuids) : Delete(c, id)
    \/ Shutdown
    \/ Restart

\* The service starts on a data file that is missing, empty or not JSON.
InitPersist ==
    \E file \in {MissingFile, EmptyFile, MalformedFile} :
        init(<<UsersConfig>>, [f \in DataFiles |-> file], 0)

\* Runs of the service, each ended by the exit hook, over the same data files.
SpecPersist == InitPersist /\ [][NextPersist]_vars

(***************************************************************************)
(* The service with two collections.                                       *)
(***************************************************************************)
\* The objects sent to the two collections: at most one identity value each.
TwoEntries(n) == { e \in Entries(n) : e["email"] \in {"a", Absent} }

NextTwo ==
    \/ \E c \in Registered, id \in EntryIds(uuids) : Get(c, id)
    \/ \E c \in Registered, id \in EntryIds(uuids) : Delete(c, id)
    \/ \E c \in Registered, id \in EntryIds(uuids), e \in TwoEntries(uuids) :
          Update(c, id, DictBody(e))
    \/ \E c \in Registered, e \in TwoEntries(uuids) : Post(c, DictBody(e))

InitTwo ==
    init(<<UsersConfig, PetsConfig>>,
         [f \in {UsersConfig.data_file, PetsConfig.data_file} |-> MissingFile], 0)

SpecTwo == InitTwo /\ [][NextTwo]_vars

(***************************************************************************)
(* Request threads.  process_request and the handlers it calls take no     *)
(* lock (LazyManager.locks is filled by init and read nowhere), so the     *)
(* statements of two requests interleave.  Each action below is one        *)
(* statement (or a run of statements touching only locals) of a handler;   *)
(* a scan of the dict is taken as one step.  An uncaught KeyError ends the *)
(* request with status 500.                                                *)
(***************************************************************************)
At(t, pc) == threads[t].pc = pc

Goto(t, pc) == threads' = [threads EXCEPT ![t].pc = pc]

Return(t, status) ==
    threads' = [threads EXCEPT ![t].pc = "done", ![t].status = status]

\* process_request, lines 424-440: the thread enters the handler of its request;
\* body is the JSON object of the request, entry the handler's local of that name
Begin(t, method, collection, entry_id, entry) ==
    /\ running
    /\ At(t, "idle")
    /\ collection \in DOMAIN collection_configs
    /\ \/ method = "GET" /\ entry = NoEntry
       \/ method = "DELETE" /\ entry = NoEntry
       \/ method = "PUT" /\ entry_id # None
       \/ method = "POST" /\ entry_id = None
    /\ threads' = [threads EXCEPT ![t] =
          [IdleThread EXCEPT
              !.pc = CASE method = "GET" -> "get_272"
                       [] method = "DELETE" -> "delete_308"
                       [] method = "PUT" -> "update_348"
                       [] OTHER -> "add_120",
              !.method = method, !.collection = collection,
              !.entry_id = entry_id, !.body = entry, !.entry = entry]]
    /\ UNCHANGED <<collection_configs, records, locks, uuids, resp, start, files, running>>

\* get_data_entries, lines 272-293
GetStep(t) ==
    /\ At(t, "get_272")
    /\ \E key \in next_key(records[threads[t].collection], threads[t].entry_id) :
          Return(t, get_data_entries(records, threads[t].collection,
                                     threads[t].entry_id, key).status)
    /\ UNCHANGED <<collection_configs, records, locks, uuids, resp, start, files, running>>

\* add_entry, lines 120-129: the identity field is looked up and the uuid attached
AddCheck(t) ==
    /\ At(t, "add_120")
    /\ LET entry == threads[t].entry
           logical_id_field == collection_configs[threads[t].collection].id_field
       IN IF ~has_key(entry, logical_id_field)
          THEN Return(t, 400) /\ UNCHANGED uuids
          ELSE IF has_key(entry, InternalId)
               THEN /\ threads' = [threads EXCEPT ![t].pc = "add_133",
                                                  ![t].key = entry[logical_id_field]]
                    /\ UNCHANGED uuids
               ELSE /\ uuids < MaxUuid
                    /\ uuids' = uuids + 1
                    /\ threads' = [threads EXCEPT
                          ![t].pc = "add_133",
                          ![t].key = entry[logical_id_field],
                          ![t].token = uuids + 1,
                          ![t].entry = [entry EXCEPT ![InternalId] = uuid4(uuids + 1)]]
    /\ UNCHANGED <<collection_configs, records, locks, resp, start, files, running>>

\* add_entry, line 133: entries.has_key(id_value)
AddHasKey(t) ==
    /\ At(t, "add_133")
    /\ IF threads[t].key \in DOMAIN records[threads[t].collection]
       THEN Goto(t, "add_135")
       ELSE Goto(t, "add_142")
    /\ UNCHANGED <<collection_configs, records, locks, uuids, resp, start, files, running>>

\* add_entry, line 135: old_entry = entries[id_value]
AddReadOld(t) ==
    /\ At(t, "add_135")
    /\ LET entries == records[threads[t].collection] IN
       IF threads[t].key \in DOMAIN entries
       THEN threads' = [threads EXCEPT ![t].pc = "add_139",
                                       ![t].old_id = entries[threads[t].key][InternalId]]
       ELSE Return(t, 500)
    /\ UNCHANGED <<collection_configs, records, locks, uuids, resp, start, files, running>>

\* add_entry, lines 139-140: the internal ids are compared
AddCompare(t) ==
    /\ At(t, "add_139")
    /\ IF ~(threads[t].old_id = threads[t].entry[InternalId])
       THEN Return(t, 400)
       ELSE Goto(t, "add_142")
    /\ UNCHANGED <<collection_configs, records, locks, uuids, resp, start, files, running>>

\* add_entry, lines 142-144: entries[id_value] = entry
AddStore(t) ==
    /\ At(t, "add_142")
    /\ records' = [records EXCEPT ![threads[t].collection] =
                      Put(@, threads[t].key, threads[t].entry)]
    /\ Return(t, 200)
    /\ UNCHANGED <<collection_configs, locks, uuids, resp, start, files, running>>

\* update_data_entry, lines 348-359: the scan for the key
UpdateScan(t) ==
    /\ At(t, "update_348")
    /\ IF threads[t].entry_id = EmptyId
       THEN Return(t, 404)
       ELSE \E key \in next_key(records[threads[t].collection], threads[t].entry_id) :
               IF key = None
               THEN Return(t, 404)
               ELSE threads' = [threads EXCEPT ![t].pc = "update_362", ![t].key = key]
    /\ UNCHANGED <<collection_configs, records, locks, uuids, resp, start, files, running>>

\* update_data_entry, line 362: entry['__id__'] = collection[key]['__id__']
UpdateReadId(t) ==
    /\ At(t, "update_362")
    /\ LET coll == records[threads[t].collection] IN
       IF threads[t].key \in DOMAIN coll
       THEN threads' = [threads EXCEPT
               ![t].pc = "update_363",
               ![t].entry = [@ EXCEPT ![InternalId] = coll[threads[t].key][InternalId]]]
       ELSE Return(t, 500)
    /\ UNCHANGED <<collection_configs, records, locks, uuids, resp, start, files, running>>

\* update_data_entry, line 363: collection[key] = entry
UpdateStore(t) ==
    /\ At(t, "update_363")
    /\ records' = [records EXCEPT ![threads[t].collection] =
                      Put(@, threads[t].key, threads[t].entry)]
    /\ Return(t, 200)
    /\ UNCHANGED <<collection_configs, locks, uuids, resp, start, files, running>>

\* delete_data_entry, lines 308-320: the scan for the key
DeleteScan(t) ==
    /\ At(t, "delete_308")
    /\ IF threads[t].entry_id = None \/ threads[t].entry_id = EmptyId
       THEN Return(t, 404)
       ELSE \E key \in next_key(records[threads[t].collection], threads[t].entry_id) :
               IF key = None
               THEN Return(t, 404)
               ELSE threads' = [threads EXCEPT ![t].pc = "delete_322", ![t].key = key]
    /\ UNCHANGED <<collection_configs, records, locks, uuids, resp, start, files, running>>

\* delete_data_entry, line 322: del collection[key]
DeleteRemove(t) ==
    /\ At(t, "delete_322")
    /\ LET coll == records[threads[t].collection] IN
       IF threads[t].key \in DOMAIN coll
       THEN /\ records' = [records EXCEPT ![threads[t].collection] = Del(coll, threads[t].key)]
            /\ Return(t, 200)
       ELSE /\ Return(t, 500)
            /\ UNCHANGED records
    /\ UNCHANGED <<collection_configs, locks, uuids, resp, start, files, running>>

\* The ids a concurrent request names: one never generated, or a generated one.
ConcIds(n) == UnknownIds \cup GeneratedIds(n)

NextConc ==
    \/ \E t \in Threads, c \in Registered, id \in ConcIds(uuids) :
          Begin(t, "GET", c, id, NoEntry)
    \/ \E t \in Threads, c \in Registered, id \in ConcIds(uuids) :
          Begin(t, "DELETE", c, id, NoEntry)
    \/ \E t \in Threads, c \in Registered, id \in ConcIds(uuids), e \in Entries(uuids) :
          Begin(t, "PUT", c, id, e)
    \/ \E t \in Threads, c \in Registered, e \in Entries(uuids) :
          Begin(t, "POST", c, None, e)
    \/ \E t \in Threads : GetStep(t)
    \/ \E t \in Threads : AddCheck(t)
    \/ \E t \in Threads : AddHasKey(t)
    \/ \E t \in Threads : AddReadOld(t)
    \/ \E t \in Threads : AddCompare(t)
    \/ \E t \in Threads : AddStore(t)
    \/ \E t \in Threads : UpdateScan(t)
    \/ \E t \in Threads : UpdateReadId(t)
    \/ \E t \in Threads : UpdateStore(t)
    \/ \E t \in Threads : DeleteScan(t)
    \/ \E t \in Threads : DeleteRemove(t)

\* A store a previous run of the service saved: one user, whose uuid was the
\* first generated.
SavedUser == [f \in Fields |-> CASE f = "email" -> "a" [] f = "name" -> "n" [] OTHER -> uuid4(1)]
SavedUsers == [k \in {"a"} |-> SavedUser]

\* The service starts on no data file, or on the file of one saved user; two
\* request threads then serve one request each.
InitConc ==
    \/ init(<<UsersConfig>>, [f \in DataFiles |-> MissingFile], 0)
    \/ init(<<UsersConfig>>,
            [f \in DataFiles |-> IF f = UsersConfig.data_file
                                 THEN JsonFile(json_dump(SavedUsers)) ELSE MissingFile], 1)

SpecConc == InitConc /\ [][NextConc]_vars

(***************************************************************************)
(* Properties.                                                             *)
(***************************************************************************)
IdField(c) == collection_configs[c].id_field

\* Every collection but c is as it was.
OthersUnchanged(recs, c) == \A d \in Registered \ {c} : recs[d] = records[d]

\* C1: conflict detection.  In every reachable state, add_entry of an entry
\* whose identity value V is a key of the collection and whose internal id
\* differs from the internal id of the record stored under V returns 400
\* with the "non matching IDs" text and leaves the whole store as it was.
C1_ConflictDetection ==
    \A c \in Registered : \A e \in Entries(uuids) :
        ( /\ has_key(e, IdField(c))
          /\ has_key(e, InternalId)
          /\ e[IdField(c)] \in DOMAIN records[c]
          /\ records[c][e[IdField(c)]][InternalId] # e[InternalId] )
        => LET r == add_entry(records, uuids, c, e)
           IN /\ r.status = 400
              /\ r.text = NonMatchingText
              /\ r.records = records

\* A request carrying its own internal id has been refused as a conflict.
C1_Witness ==
    /\ resp.handler = "add_update_data_entries"
    /\ resp.status = 400
    /\ resp.kinds = <<"error">>
    /\ resp.generated = 0

\* C2: identity uniqueness.  No two records stored under different keys of
\* one collection have the same internal id.
C2_IdentityUniqueness ==
    \A c \in Registered : \A k1, k2 \in DOMAIN records[c] :
        k1 # k2 => records[c][k1][InternalId] # records[c][k2][InternalId]

\* C5: update preserves key.  When the scan of update_data_entry finds the
\* record under key K1 and the payload's identity field has another value K2,
\* the call returns 200, the payload (with the stored internal id) is stored
\* under K1, the set of keys is unchanged and every other entry, the one under
\* K2 if there is one included, is unchanged.
C5_UpdatePreservesKey ==
    \A c \in Registered : \A id \in EntryIds(uuids) : \A e \in Entries(uuids) :
      \A key \in next_key(records[c], id) :
        ( /\ id \notin {None, EmptyId}
          /\ key # None
          /\ has_key(e, IdField(c))
          /\ e[IdField(c)] # key )
        => LET r == update_data_entry(records, c, id, DictBody(e), key)
           IN /\ r.status = 200
              /\ DOMAIN r.records[c] = DOMAIN records[c]
              /\ r.records[c][key] = [e EXCEPT ![InternalId] = records[c][key][InternalId]]
              /\ \A k \in DOMAIN records[c] \ {key} : r.records[c][k] = records[c][k]
              /\ OthersUnchanged(r.records, c)

\* An update has left a record under a key other than its identity value.
C5_Witness ==
    /\ resp.handler = "update_data_entry"
    /\ resp.status = 200
    /\ \E c \in Registered : \E k \in DOMAIN records[c] :
          /\ has_key(records[c][k], IdField(c))
          /\ records[c][k][IdField(c)] # k

\* A fully-formed record: it has the identity field and an internal id.
FullyFormed(c, e) == has_key(e, IdField(c)) /\ has_key(e, InternalId)

\* C6: idempotence of upsert.  In every reachable state, for every
\* fully-formed record, add_entry applied twice in a row returns the same
\* status and text both times, and the second call leaves the store the
\* first call left.
C6_UpsertIdempotent ==
    \A c \in Registered : \A e \in Entries(uuids) :
        FullyFormed(c, e)
        => LET r1 == add_entry(records, uuids, c, e)
               r2 == add_entry(r1.records, r1.uuids, c, e)
           IN /\ r2.status = r1.status
              /\ r2.text = r1.text
              /\ r2.records = r1.records

\* A fully-formed record has been stored by an upsert.
C6_Witness ==
    /\ resp.handler = "add_update_data_entries"
    /\ resp.status = 200
    /\ resp.kinds = <<"json">>
    /\ resp.generated = 0

\* C7: upsert without internal id.  In every reachable state, add_entry of
\* an entry that has the identity field and no internal id generates an id
\* no stored record has; when its identity value is not a key, the entry is
\* stored under it with the generated id and returned with 200; when it is a
\* key, the call returns 400 with the "non matching IDs" text and the store is
\* unchanged.
C7_UpsertWithoutId ==
    \A c \in Registered : \A e \in Entries(uuids) :
        ( has_key(e, IdField(c)) /\ ~has_key(e, InternalId) )
        => LET r == add_entry(records, uuids, c, e)
               v == e[IdField(c)]
               fresh == uuid4(uuids + 1)
               stored == [e EXCEPT ![InternalId] = fresh]
           IN /\ \A d \in Registered : \A k \in DOMAIN records[d] :
                    records[d][k][InternalId] # fresh
              /\ r.uuids = uuids + 1
              /\ v \notin DOMAIN records[c]
                   => /\ r.status = 200
                      /\ r.text = dumps(stored)
                      /\ r.records = [records EXCEPT ![c] = Put(records[c], v, stored)]
              /\ v \in DOMAIN records[c]
                   => /\ r.status = 400
                      /\ r.text = NonMatchingText
                      /\ r.records = records

\* A request without internal id has been refused as a conflict.
C7_Witness ==
    /\ resp.handler = "add_update_data_entries"
    /\ resp.status = 400
    /\ resp.kinds = <<"error">>
    /\ resp.generated = 1

\* C8: delete then read.  In every reachable state, after a
\* delete_data_entry of entry_id that returns 200, get_data_entries of the
\* same entry_id returns 404.
C8_DeleteThenRead ==
    \A c \in Registered : \A id \in EntryIds(uuids) :
      \A key \in next_key(records[c], id) :
        LET d == delete_data_entry(records, c, id, key)
        IN d.status = 200
           => \A key2 \in next_key(d.records[c], id) :
                 get_data_entries(d.records, c, id, key2).status = 404

\* C9: outcomes of delete_data_entry.  With entry_id None or empty, or equal
\* to no stored record's internal id, it returns 404 and the store is
\* unchanged; otherwise it returns 200 and removes exactly one entry, whose
\* internal id is entry_id, every other entry being unchanged.
C9_DeleteOutcome ==
    \A c \in Registered : \A id \in EntryIds(uuids) :
      \A key \in next_key(records[c], id) :
        LET d == delete_data_entry(records, c, id, key)
            matches == { k \in DOMAIN records[c] : records[c][k][InternalId] = id }
        IN IF id \in {None, EmptyId} \/ matches = {}
           THEN d.status = 404 /\ d.records = records
           ELSE /\ d.status = 200
                /\ \E k \in matches :
                      /\ DOMAIN d.records[c] = DOMAIN records[c] \ {k}
                      /\ \A k2 \in DOMAIN d.records[c] : d.records[c][k2] = records[c][k2]
                /\ OthersUnchanged(d.records, c)

\* A delete has removed one entry and left another in the collection.
C9_Witness ==
    /\ resp.handler = "delete_data_entry"
    /\ resp.status = 200
    /\ \E c \in Registered : records[c] # EmptyCollection


\* The store and uuid count after add_entry on the first k elements of es.
RECURSIVE AfterPrefix(_, _, _)
AfterPrefix(c, es, k) ==
    IF k = 0
    THEN [records |-> records, uuids |-> uuids]
    ELSE LET before == AfterPrefix(c, es, k - 1)
             r == add_entry(before.records, before.uuids, c, es[k])
         IN [records |-> r.records, uuids |-> r.uuids]

InSection(t) ==
    threads[t].pc \in {"add_135", "add_139", "add_142",
                       "update_362", "update_363", "delete_322"}

\* Every thread inside a read-decide-write section holds the collection's lock.
GuardHeld ==
    \A t \in Threads : InSection(t) => locks[threads[t].collection] = t

\* C3: mutual exclusion.  Every access to a collection's state happens with
\* the collection's guard held, so no two request threads are inside the
\* read-decide-write section of an operation on the same collection at the
\* same time.
C3_MutualExclusion ==
    \A t1, t2 \in Threads :
        ( /\ t1 # t2
          /\ threads[t1].collection = threads[t2].collection
          /\ InSection(t1) )
        => ~InSection(t2)

AllDone == \A t \in Threads : threads[t].pc = "done"

\* The request of thread t served alone on the store recs, with the uuid the
\* thread generated: the (status, store) pairs it may end with.
Alone(recs, t) ==
    LET th == threads[t]
        n == IF th.token = 0 THEN 0 ELSE th.token - 1
        body == IF th.method \in {"GET", "DELETE"} THEN NoBody ELSE DictBody(th.body)
    IN { [status |-> r.status, records |-> r.records] :
           r \in { process_request(recs, n, th.method, th.collection, th.entry_id, body, key) :
                     key \in ScanResults(recs, th.collection, th.entry_id) } }

\* The statuses and the final store are those of the two requests served one
\* after the other, first then second.
Serial(first, second) ==
    \E o1 \in Alone(start, first) :
        /\ o1.status = threads[first].status
        /\ \E o2 \in Alone(o1.records, second) :
              /\ o2.status = threads[second].status
              /\ o2.records = records

\* C4: atomicity under concurrency.  When two concurrent requests on the same
\* collection have both returned, their statuses and the final store are those
\* of the two requests served in some sequential order.
C4_Atomicity ==
    AllDone => \E t1, t2 \in Threads : t1 # t2 /\ Serial(t1, t2)


\* Two concurrent upserts that carry no internal id and the same identity
\* value, absent at the start, never both return 200.
C4_NoDoubleInsert ==
    \A t1, t2 \in Threads :
        ( /\ t1 # t2
          /\ AllDone
          /\ threads[t1].method = "POST" /\ threads[t2].method = "POST"
          /\ threads[t1].token # 0 /\ threads[t2].token # 0
          /\ threads[t1].key = threads[t2].key
          /\ threads[t1].key \notin DOMAIN start[threads[t1].collection] )
        => ~(threads[t1].status = 200 /\ threads[t2].status = 200)

(***************************************************************************)
(* Requests on a collection that is not registered.                        *)
(***************************************************************************)
\* C11: unknown collection.  In every reachable state, process_request on a
\* collection name that is not registered returns 404 for every method,
\* entry_id and body (none, an object, or a list of no or one object), the
\* response being built by
\* process_request itself, no handler having been called; the store of every
\* registered collection and the uuid count are as they were.
C11_UnknownCollection ==
    \A b \in Bodies(uuids) \cup UnitListBodies(uuids) :
      \A c \in CollectionNames \ Registered : \A m \in Methods :
        \A id \in EntryIds(uuids) : \A key \in ScanResults(records, c, id) :
          LET r == process_request(records, uuids, m, c, id, b, key)
          IN /\ r.status = 404
             /\ r.handler = "process_request"
             /\ r.content = NoContent
             /\ r.records = records
             /\ r.uuids = uuids

\* A request on an unregistered collection has been answered 404 while a
\* registered collection held a record.
C11_Witness ==
    /\ resp.handler = "process_request"
    /\ resp.status = 404
    /\ \E c \in Registered : records[c] # EmptyCollection

(***************************************************************************)
(* Persistence.                                                            *)
(***************************************************************************)
DataFile(c) == collection_configs[c].data_file

\* C12: durability by shutdown.  Once handle_shutdown has run, the content of
\* the data file of every registered collection is that collection's
\* in-memory state: the file is JSON and reading it gives the dict that was
\* in memory, and nothing else.
C12_DurableByShutdown ==
    ~running =>
        \A c \in Registered :
            /\ files[DataFile(c)].state = "json"
            /\ load_data(files[DataFile(c)]) = {records[c]}

\* What handle_shutdown does write: the JSON text of the current dict of
\* every registered collection.
C12_Flushed ==
    ~running =>
        \A c \in Registered : files[DataFile(c)] = JsonFile(json_dump(records[c]))

\* C13: persistence round-trip and recovery.  For the state s of a
\* collection, load_data of the file save_data wrote for s returns s; and
\* load_data of a missing, empty or malformed file returns the empty dict.
C13_RoundTrip ==
    /\ \A c \in Registered :
          /\ save_data(records[c]).ok
          /\ load_data(save_data(records[c]).file) = {records[c]}
    /\ \A file \in {MissingFile, EmptyFile, MalformedFile} :
          load_data(file) = {EmptyCollection}

\* The round trip of a dict all of whose keys are strings, and the recovery
\* from a file that is not JSON.
C13_StringKeys ==
    /\ \A c \in Registered :
          (DOMAIN records[c]) \cap Numbers = {}
          => load_data(save_data(records[c]).file) = {records[c]}
    /\ \A file \in {MissingFile, EmptyFile, MalformedFile} :
          load_data(file) = {EmptyCollection}

(***************************************************************************)
(* Filtering.                                                              *)
(***************************************************************************)
\* C14: filter never errors.  In every reachable state, for every filter key
\* and value, handle_url_single_filter returns 200 with exactly the records
\* of the collection whose filter key has that value: none when no record
\* matches, a record without the key counting as one that does not match.
C14_FilterNeverErrors ==
    \A c \in Registered : \A f \in FilterKeys : \A v \in FilterValues :
      \A r \in handle_url_single_filter(records, c, f, v) :
        /\ r.status = 200
        /\ { r.content.coll[k] : k \in DOMAIN r.content.coll }
             = { records[c][k] : k \in { x \in DOMAIN records[c] : records[c][x][f] = v } }

\* The filter on a collection every record of which has the filter key and
\* is stored under its own identity value: 200 with exactly the matching
\* records.
C14_FieldsPresent ==
    \A c \in Registered : \A f \in FilterKeys : \A v \in FilterValues :
        ( \A k \in DOMAIN records[c] :
              has_key(records[c][k], f) /\ records[c][k][IdField(c)] = k )
        => \A r \in handle_url_single_filter(records, c, f, v) :
              /\ r.status = 200
              /\ { r.content.coll[k] : k \in DOMAIN r.content.coll }
                   = { records[c][k] : k \in { x \in DOMAIN records[c] : records[c][x][f] = v } }

(***************************************************************************)
(* The records of a collection.                                            *)
(***************************************************************************)
\* C15: identity field presence.  Starting from a store in which every
\* record has its collection's identity field, every record stored after
\* any sequence of requests has the identity field of its collection.
C15_IdentityFieldPresent ==
    \A c \in Registered : \A k \in DOMAIN records[c] :
        has_key(records[c][k], IdField(c))

\* C16: update by id.  In every reachable state, update_data_entry with an
\* object as payload returns 404 and leaves the store as it was when
\* entry_id is None or empty or is the internal id of no stored record;
\* otherwise it returns 200 and the record under the key that the scan found
\* becomes the payload with "__id__" set to the internal id that was stored
\* there, whatever "__id__" the payload carried, nothing of the old record
\* being kept and every other record being unchanged.
C16_UpdateById ==
    \A c \in Registered : \A id \in EntryIds(uuids) : \A e \in Entries(uuids) :
      \A key \in next_key(records[c], id) :
        LET r == update_data_entry(records, c, id, DictBody(e), key)
            matches == { k \in DOMAIN records[c] : records[c][k][InternalId] = id }
        IN IF id \in {None, EmptyId} \/ matches = {}
           THEN r.status = 404 /\ r.records = records
           ELSE /\ r.status = 200
                /\ key \in matches
                /\ r.records[c] =
                      Put(records[c], key,
                          [f \in Fields |-> IF f = InternalId THEN id ELSE e[f]])
                /\ OthersUnchanged(r.records, c)

\* An update has replaced a record by a payload without the identity field:
\* nothing of the old record but its internal id is left.
C16_Witness ==
    /\ resp.handler = "update_data_entry"
    /\ resp.status = 200
    /\ \E c \in Registered : \E k \in DOMAIN records[c] :
          /\ ~has_key(records[c][k], IdField(c))
          /\ has_key(records[c][k], InternalId)

\* C17: internal id immutability.  In every step of the service, a key that
\* is in a collection before and after the step (the step did not delete it)
\* has a record with the same internal id after the step as before; so the
\* internal id under a key never changes for as long as the key stays.
C17_InternalIdImmutable ==
    [][ \A c \in Registered : \A k \in (DOMAIN records[c]) \cap (DOMAIN records'[c]) :
            records'[c][k][InternalId] = records[c][k][InternalId] ]_vars

\* After the last uuid of the run was generated, an upsert that brought its
\* own internal id has been stored, and a record stored under its identity
\* value still carries the first internal id the service generated.
C17_Witness ==
    /\ resp.handler = "add_update_data_entries"
    /\ resp.status = 200
    /\ resp.generated = 0
    /\ \E c \in Registered : \E k \in DOMAIN records[c] :
          /\ records[c][k][InternalId] = uuid4(1)
          /\ records[c][k][IdField(c)] = k
          /\ has_key(records[c][k], "name")
    /\ uuids = MaxUuid

\* C18: upsert validation.  In every reachable state, add_entry of an entry
\* without the collection's identity field, with an internal id or without,
\* returns 400 with the empty text, generates no uuid and leaves the store
\* as it was; add_update_data_entries answers such an object with 400.
C18_UpsertValidation ==
    \A c \in Registered : \A e \in Entries(uuids) :
        ~has_key(e, IdField(c))
        => LET r == add_entry(records, uuids, c, e)
               a == add_update_data_entries(records, uuids, c, DictBody(e))
           IN /\ r.status = 400
              /\ r.text = EmptyText
              /\ r.records = records
              /\ r.uuids = uuids
              /\ a.status = 400
              /\ a.records = records

\* An object without the identity field has been refused while the
\* collection held a record.
C18_Witness ==
    /\ resp.handler = "add_update_data_entries"
    /\ resp.status = 400
    /\ resp.kinds = <<"empty">>
    /\ \E c \in Registered : records[c] # EmptyCollection

\* The record under key k of collection c has k as its identity value.
Agrees(recs, c, k) == recs[c][k][IdField(c)] = k

\* C19: key/record agreement.  In every reachable state every record is
\* stored under the key equal to its own identity value.
C19_KeyRecordAgreement ==
    \A c \in Registered : \A k \in DOMAIN records[c] : Agrees(records, c, k)

\* The store recs differs from the current one by no record that is under a
\* key other than its identity value.
NoNewDisagreement(recs, c) ==
    \A k \in DOMAIN recs[c] :
        \/ Agrees(recs, c, k)
        \/ k \in DOMAIN records[c] /\ recs[c][k] = records[c][k]

\* C19, amended: in every reachable state, add_entry, add_update_data_entries
\* (an object, or a list of one) and delete_data_entry leave every record they
\* store under the key equal to its identity value and leave every other
\* record as it was; a record is under another key only where
\* update_data_entry has put it there.
C19_UpsertDeleteAgreement ==
    \A c \in Registered :
        /\ \A b \in Bodies(uuids) \cup UnitListBodies(uuids) :
              NoNewDisagreement(add_update_data_entries(records, uuids, c, b).records, c)
        /\ \A e \in Entries(uuids) :
              LET r == add_entry(records, uuids, c, e)
              IN /\ NoNewDisagreement(r.records, c)
                 /\ r.status = 200 => /\ e[IdField(c)] \in DOMAIN r.records[c]
                                       /\ Agrees(r.records, c, e[IdField(c)])
        /\ \A id \in EntryIds(uuids) : \A key \in next_key(records[c], id) :
              NoNewDisagreement(delete_data_entry(records, c, id, key).records, c)

\* An upsert has stored a record under its identity value next to a record
\* that an update had left under another key.
C19_Witness ==
    /\ resp.handler = "add_update_data_entries"
    /\ resp.status = 200
    /\ \E c \in Registered : \E k1, k2 \in DOMAIN records[c] :
          /\ Agrees(records, c, k1)
          /\ has_key(records[c][k2], IdField(c))
          /\ ~Agrees(records, c, k2)

(***************************************************************************)
(* What a request leaves alone.                                            *)
(***************************************************************************)
\* C20: frame.  In every reachable state of the service with two
\* collections, a GET (of the whole collection or of one entry) leaves the
\* store of every collection and the uuid count as they were, and a request
\* of any method on collection c, with any entry_id and body (none, an
\* object, or a list of up to two objects), answered 200 or not, leaves every collection other than c as it was.
C20_Frame ==
    \A b \in Bodies(uuids) \cup PairListBodies(uuids) :
      \A c \in Registered : \A m \in Methods :
        \A id \in IF b.kind = "list" THEN {None} ELSE EntryIds(uuids) :
        \A key \in ScanResults(records, c, id) :
          LET r == process_request(records, uuids, m, c, id, b, key)
          IN /\ m = "GET" => (r.records = records /\ r.uuids = uuids)
             /\ OthersUnchanged(r.records, c)
             /\ DOMAIN r.records = DOMAIN records

\* A delete has emptied one collection while another holds a record with an
\* internal id.
C20_Witness ==
    /\ resp.handler = "delete_data_entry"
    /\ resp.status = 200
    /\ \E c, d \in Registered :
          /\ c # d
          /\ records[c] = EmptyCollection
          /\ records[d] # EmptyCollection

====
